---- MODULE Spec2Model ----
(***************************************************************************)
(* GBA centrality: powers of the interactome's adjacency matrix            *)
(* (get_adjacency_matrices), the normalized scores (calculate_scores of    *)
(* scripts/GBA_centrality.py) and the per-distance contributions saved to  *)
(* disk (calculate_contributions of dev/contributions_at_distances.py).    *)
(*                                                                         *)
(* Floating-point values are modelled as exact non-negative rationals      *)
(* <<numerator, denominator>> in lowest terms, plus the two results of a   *)
(* division by zero (nan, inf).  Rounding, overflow to inf and underflow   *)
(* to 0.0 of IEEE doubles are outside the model.                           *)
(***************************************************************************)
EXTENDS Integers, Sequences, FiniteSets, TLC

\* ------------------------------------------------------------------ bounds
MaxNodes == 3
DMax == 3
MaxRuns == 2

\* numpy.uint8 holds values modulo 256 (dtype of causal_genes_vec)
Uint8Modulus == 256

\* ------------------------------------------------------------ input domains
GeneIds == <<"A", "B", "C", "D", "E">>

\* alpha and alpha_norm are written in hundredths: 50 is the float 0.5
AlphaValues == {50, 100}
AlphaNormValues == {25, 50, 100}

\* -------------------------------------------------------------- rationals
RECURSIVE Gcd(_, _)
Gcd(a, b) == IF b = 0 THEN a ELSE Gcd(b, a % b)

Rat(n, d) == LET g == Gcd(n, d) IN IF n = 0 THEN <<0, 1>> ELSE <<n \div g, d \div g>>
RatZero == <<0, 1>>
RatOne == <<1, 1>>
RatAdd(x, y) == Rat(x[1] * y[2] + y[1] * x[2], x[2] * y[2])
RatMul(x, y) == Rat(x[1] * y[1], x[2] * y[2])
RatDiv(x, y) == Rat(x[1] * y[2], x[2] * y[1])
RatLeq(x, y) == x[1] * y[2] <= y[1] * x[2]
RatLt(x, y) == x[1] * y[2] < y[1] * x[2]
RECURSIVE RatPow(_, _)
RatPow(x, d) == IF d = 0 THEN RatOne ELSE RatMul(x, RatPow(x, d - 1))

\* the float a command-line value in hundredths stands for
Float(h) == Rat(h, 100)

\* ------------------------------------------------------------- the graph
\* networkx.Graph: nodes in insertion order, undirected edges {u, v}; a
\* self-loop is the one-element edge {u}
NodeCount(G) == Len(G.nodes)
Indices(G) == 1..NodeCount(G)
HasEdge(G, u, v) == {u, v} \in G.edges

\* networkx.to_scipy_sparse_array(interactome, dtype=bool), rows and columns
\* ordered as interactome.nodes()
ToScipySparseArray(G) ==
    [i \in Indices(G) |-> [j \in Indices(G) |-> HasEdge(G, G.nodes[i], G.nodes[j])]]

\* ------------------------------------------------------ sparse matrices
Dim(M) == DOMAIN M

\* res.diagonal().nonzero()
DiagonalNonzero(M) == {i \in Dim(M) : M[i][i]}

\* nonzero, = res.diagonal().nonzero() ; res[nonzero, nonzero] = 0
ZeroNonzeroDiagonalSkipped(res) == res
ZeroNonzeroDiagonal(res) ==
    LET nonzero == DiagonalNonzero(res)
    IN [i \in Dim(res) |-> [j \in Dim(res) |->
            IF i = j /\ i \in nonzero THEN FALSE ELSE res[i][j]]]

\* res @ A on boolean arrays: sums are logical or, products logical and
MatMulElementwise(res, A) ==
    [i \in Dim(res) |-> [j \in Dim(res) |-> res[i][j] /\ A[i][j]]]
MatMul(res, A) ==
    [i \in Dim(res) |-> [j \in Dim(res) |-> \E k \in Dim(res) : res[i][k] /\ A[k][j]]]

\* Python lists: index i of the list is element i + 1 of the sequence
PyIndex(list, i) == list[i + 1]
PyLen(list) == Len(list)

\* for power in range(2, d_max + 1): res = res @ A ; zero diagonal ; append
RECURSIVE PowerLoopDiagonalKept(_, _, _, _, _)
PowerLoopDiagonalKept(res, A, power, dmax, matrices) ==
    IF power > dmax THEN matrices
    ELSE LET r == MatMul(res, A)
         IN PowerLoopDiagonalKept(r, A, power + 1, dmax, Append(matrices, r))
RECURSIVE PowerLoop(_, _, _, _, _)
PowerLoop(res, A, power, dmax, matrices) ==
    IF power > dmax THEN matrices
    ELSE LET r == ZeroNonzeroDiagonal(MatMul(res, A))
         IN PowerLoop(r, A, power + 1, dmax, Append(matrices, r))

\* get_adjacency_matrices(interactome, d_max), the same text in both scripts
\* (contributions_at_distances.py lines 60-93): to_scipy_sparse_array raises
\* NetworkXError on a graph without nodes; res is the same object as A, so
\* the first zeroing of the diagonal also clears the diagonal of A
GetAdjacencyMatrices(G, dmax) ==
    IF NodeCount(G) = 0
    THEN [raised |-> "NetworkXError", value |-> << >>]
    ELSE LET A == ZeroNonzeroDiagonal(ToScipySparseArray(G))
             res == A
         IN [raised |-> "none", value |-> PowerLoop(res, A, 2, dmax, <<0, res>>)]

\* --------------------------------------------------------------- vectors
RECURSIVE SumOver(_, _)
SumOver(f, S) ==
    IF S = {} THEN 0
    ELSE LET j == CHOOSE x \in S : TRUE IN f[j] + SumOver(f, S \ {j})

\* causal_genes_vec: 1 if the node at that position is a causal gene
CausalGenesVec(G, causal) ==
    [ni \in Indices(G) |-> IF G.nodes[ni] \in causal THEN 1 ELSE 0]

OnesVec(G) == [ni \in Indices(G) |-> 1]

\* A.dot(causal_genes_vec): boolean matrix times uint8 vector, a uint8 vector
DotUint8(A, vec) ==
    [i \in Dim(A) |-> SumOver([j \in Dim(A) |-> IF A[i][j] THEN vec[j] ELSE 0], Dim(A))
                        % Uint8Modulus]

\* A.dot(ones_vec): boolean matrix times float vector
DotFloat(A, vec) ==
    [i \in Dim(A) |-> SumOver([j \in Dim(A) |-> IF A[i][j] THEN vec[j] ELSE 0], Dim(A))]

VecAdd(x, y) == [i \in DOMAIN x |-> RatAdd(x[i], y[i])]
Zeros(G) == [ni \in Indices(G) |-> RatZero]

\* numpy's element-wise true division: 0/0 is nan, x/0 is inf for x > 0
Nan == [kind |-> "nan"]
Inf == [kind |-> "inf"]
Num(x) == [kind |-> "num", val |-> x]
NumpyDivide(x, y) ==
    [i \in DOMAIN x |->
        IF y[i][1] # 0 THEN Num(RatDiv(x[i], y[i]))
        ELSE IF x[i][1] = 0 THEN Nan ELSE Inf]

\* dict(zip(interactome.nodes(), scores_vec_normalized))
ZipNodes(G, vec) ==
    [g \in {G.nodes[i] : i \in Indices(G)} |->
        vec[CHOOSE i \in Indices(G) : G.nodes[i] = g]]


\* ------------------------------------------------------------ file names
Digit(n) == <<"0", "1", "2", "3", "4", "5", "6", "7", "8", "9">>[n + 1]

\* str() of a non-negative int
RECURSIVE StrInt(_)
StrInt(n) == IF n < 10 THEN <<Digit(n)>> ELSE StrInt(n \div 10) \o <<Digit(n % 10)>>

\* str() of a float given in hundredths: the shortest repr, "0.5", "0.25", "1.0"
StrFloat(h) ==
    StrInt(h \div 100) \o <<".">> \o
    (IF h % 10 = 0 THEN <<Digit((h % 100) \div 10)>>
     ELSE <<Digit((h % 100) \div 10), Digit(h % 10)>>)

\* s.replace('.', '')
RemoveDots(s) == SelectSeq(s, LAMBDA c : c # ".")

\* int() of a float given in hundredths: truncation
IntOfFloat(h) == h \div 100

\* ALPHA = str(alpha).replace('.', '')
AlphaTag(a) == RemoveDots(StrFloat(a))

\* ALPHA_NORM = str(int(alpha_norm))
AlphaNormTag(an) == StrInt(IntOfFloat(an))

\* f"contributions_at_distances/{patho}/{what}_d{d}_alpha{ALPHA}_dmax{d_max}_alphanorm{ALPHA_NORM}.npz"
FileName(what, p, a, an, dmax, dist) ==
    <<"contributions_at_distances/", p, "/", what, "_d">> \o StrInt(dist)
        \o <<"_alpha">> \o AlphaTag(a)
        \o <<"_dmax">> \o StrInt(dmax)
        \o <<"_alphanorm">> \o AlphaNormTag(an) \o <<".npz">>

\* ------------------------------------------------------------------ state
VARIABLES
    interactome,        \* the parsed interactome file
    causal_genes,       \* the parsed causal genes (a set of gene ids)
    patho, alpha, alpha_norm, d_max,     \* the command line of the next run
    script,             \* the script that is running, "none" between runs
    pc,                 \* its position
    adjacency_matrices, \* the list get_adjacency_matrices returned
    causal_genes_vec, scores_vec, norm_factors_vec, d,   \* locals of the scorer
    contributions,      \* the (scores_vec_tmp, norm_factors_vec_tmp) of this run so far
    files,              \* the .npz files on disk: file name -> array
    saves,              \* every numpy.savez so far: the name and what was saved
    runs                \* the finished runs, in order

vars == <<interactome, causal_genes, patho, alpha, alpha_norm, d_max, script, pc,
          adjacency_matrices, causal_genes_vec, scores_vec, norm_factors_vec, d,
          contributions, files, saves, runs>>

inputs == <<interactome, causal_genes>>
args == <<patho, alpha, alpha_norm, d_max>>
locals == <<adjacency_matrices, causal_genes_vec, scores_vec, norm_factors_vec, d>>

Scorer == "GBA_centrality"
Diagnostic == "contributions_at_distances"

\* ------------------------------------------------------------ input graphs
NodesOf(n) == SubSeq(GeneIds, 1, n)
NodeSet(n) == {GeneIds[i] : i \in 1..n}
SimpleEdges(n) == {{u, v} : u, v \in NodeSet(n)} \ {{u} : u \in NodeSet(n)}
SelfLoops(n) == {{u} : u \in NodeSet(n)}

\* undirected simple graphs on at most MaxNodes (and at least minNodes) nodes
SimpleGraphs(minNodes) ==
    UNION {{[nodes |-> NodesOf(n), edges |-> E] : E \in SUBSET SimpleEdges(n)} :
            n \in minNodes..MaxNodes}

\* the same with any self-loops added
LoopGraphs(minNodes) ==
    UNION {{[nodes |-> NodesOf(n), edges |-> E \cup L] :
                E \in SUBSET SimpleEdges(n), L \in SUBSET SelfLoops(n)} :
            n \in minNodes..MaxNodes}

\* the two parsed input files: <<interactome, causal genes>>
InitWith(parsed, pathos, alphas, norms, dmaxes) ==
    /\ \E w \in parsed :
        /\ interactome = w[1]
        /\ causal_genes = w[2]
    /\ patho \in pathos
    /\ alpha \in alphas
    /\ alpha_norm \in norms
    /\ d_max \in dmaxes
    /\ script = "none"
    /\ pc = "idle"
    /\ adjacency_matrices = << >>
    /\ causal_genes_vec = << >>
    /\ scores_vec = << >>
    /\ norm_factors_vec = << >>
    /\ d = 0
    /\ contributions = << >>
    /\ files = << >>
    /\ saves = {}
    /\ runs = << >>

\* the causal genes are nodes of the interactome
AnyCausal(graphs) ==
    UNION {{<<G, c>> : c \in SUBSET {G.nodes[i] : i \in Indices(G)}} : G \in graphs}

\* ------------------------------------------------- scripts/GBA_centrality.py
Args == [patho |-> patho, alpha |-> alpha, alpha_norm |-> alpha_norm, d_max |-> d_max]

\* a script is run at most MaxRuns times in all, and not twice on one command line
CanLaunch(s) ==
    /\ pc = "idle"
    /\ Len(runs) < MaxRuns
    /\ \A k \in 1..Len(runs) : ~(runs[k].script = s /\ runs[k].args = Args)

\* a script's process has ended: its memory is gone
Exit(outcome) ==
    /\ runs' = Append(runs, outcome)
    /\ script' = "none"
    /\ pc' = "idle"
    /\ adjacency_matrices' = << >>
    /\ causal_genes_vec' = << >>
    /\ scores_vec' = << >>
    /\ norm_factors_vec' = << >>
    /\ d' = 0
    /\ contributions' = << >>

Outcome(s, err, matrices, sv, nv, result, contribs) ==
    [script |-> s, args |-> Args, raised |-> err, adjacency_matrices |-> matrices,
     scores_vec |-> sv, norm_factors_vec |-> nv, scores |-> result,
     contributions |-> contribs]

\* main() up to the loop of the scorer: get_adjacency_matrices, then the
\* vectors; an exception ends the script (sys.exit(1))
Enter(s) ==
    LET r == GetAdjacencyMatrices(interactome, d_max)
    IN IF r.raised # "none"
       THEN /\ Exit(Outcome(s, r.raised, << >>, << >>, << >>, << >>, << >>))
            /\ UNCHANGED <<inputs, args, files, saves>>
       ELSE /\ script' = s
            /\ pc' = "loop"
            /\ adjacency_matrices' = r.value
            /\ causal_genes_vec' = CausalGenesVec(interactome, causal_genes)
            /\ scores_vec' = Zeros(interactome)
            /\ norm_factors_vec' = Zeros(interactome)
            /\ d' = 1
            /\ contributions' = << >>
            /\ UNCHANGED <<inputs, args, files, saves, runs>>

\* main() of GBA_centrality.py, to the first iteration of calculate_scores
ScoresMain ==
    /\ CanLaunch(Scorer)
    /\ Enter(Scorer)

\* alpha ** d * A.dot(causal_genes_vec), at scores_vec += ...
ScoresTerm ==
    LET w == RatPow(Float(alpha), d)
        v == DotUint8(PyIndex(adjacency_matrices, d), causal_genes_vec)
    IN [i \in DOMAIN v |-> RatMul(w, Rat(v[i], 1))]

\* (alpha / alpha_norm) ** d * A.dot(ones_vec), at norm_factors_vec += ...
NormTermProduct ==
    LET w == RatPow(RatMul(Float(alpha), Float(alpha_norm)), d)
        v == DotFloat(PyIndex(adjacency_matrices, d), OnesVec(interactome))
    IN [i \in DOMAIN v |-> RatMul(w, Rat(v[i], 1))]
NormTerm ==
    LET w == RatPow(RatDiv(Float(alpha), Float(alpha_norm)), d)
        v == DotFloat(PyIndex(adjacency_matrices, d), OnesVec(interactome))
    IN [i \in DOMAIN v |-> RatMul(w, Rat(v[i], 1))]

\* one iteration of for d in range(1, len(adjacency_matrices))
ScoresIter ==
    /\ script = Scorer
    /\ pc = "loop"
    /\ d < PyLen(adjacency_matrices)
    /\ scores_vec' = VecAdd(scores_vec, ScoresTerm)
    /\ norm_factors_vec' = VecAdd(norm_factors_vec, NormTerm)
    /\ d' = d + 1
    /\ UNCHANGED <<inputs, args, script, pc, adjacency_matrices, causal_genes_vec,
                   contributions, files, saves, runs>>

\* scores_vec_normalized = scores_vec / norm_factors_vec ; the dict
ScoresOfCausalPinned(sv, nv) ==
    LET q == NumpyDivide(sv, nv)
    IN ZipNodes(interactome,
            [i \in DOMAIN q |-> IF interactome.nodes[i] \in causal_genes
                                 THEN Num(RatOne) ELSE q[i]])
ScoresOf(sv, nv) == ZipNodes(interactome, NumpyDivide(sv, nv))

\* the loop is over: divide, build the dict, return; main prints it and ends
ScoresReturn ==
    /\ script = Scorer
    /\ pc = "loop"
    /\ d >= PyLen(adjacency_matrices)
    /\ Exit(Outcome(Scorer, "none", adjacency_matrices, scores_vec, norm_factors_vec,
                    ScoresOf(scores_vec, norm_factors_vec), << >>))
    /\ UNCHANGED <<inputs, args, files, saves>>

\* ------------------------------------- dev/contributions_at_distances.py
\* main() of contributions_at_distances.py, to the first iteration
ContribMain ==
    /\ CanLaunch(Diagnostic)
    /\ Enter(Diagnostic)

\* scores_vec_tmp = alpha ** d * A.dot(causal_genes_vec)
ScoresVecTmpNormDecay ==
    LET w == RatPow(RatDiv(Float(alpha), Float(alpha_norm)), d)
        v == DotUint8(PyIndex(adjacency_matrices, d), causal_genes_vec)
    IN [i \in DOMAIN v |-> RatMul(w, Rat(v[i], 1))]
ScoresVecTmp ==
    LET w == RatPow(Float(alpha), d)
        v == DotUint8(PyIndex(adjacency_matrices, d), causal_genes_vec)
    IN [i \in DOMAIN v |-> RatMul(w, Rat(v[i], 1))]

\* norm_factors_vec_tmp = (alpha / alpha_norm) ** d * A.dot(ones_vec)
NormFactorsVecTmpSignalDecay ==
    LET w == RatPow(Float(alpha), d)
        v == DotFloat(PyIndex(adjacency_matrices, d), OnesVec(interactome))
    IN [i \in DOMAIN v |-> RatMul(w, Rat(v[i], 1))]
NormFactorsVecTmp ==
    LET w == RatPow(RatDiv(Float(alpha), Float(alpha_norm)), d)
        v == DotFloat(PyIndex(adjacency_matrices, d), OnesVec(interactome))
    IN [i \in DOMAIN v |-> RatMul(w, Rat(v[i], 1))]

SaveKey(what) ==
    [what |-> what, patho |-> patho, alpha |-> alpha, alpha_norm |-> alpha_norm,
     d_max |-> d_max, d |-> d]

\* the names of the two files of this iteration
ScoresFile == FileName("scores", patho, alpha, alpha_norm, d_max, d)
NormFactorsFile == FileName("normFactors", patho, alpha, alpha_norm, d_max, d)

\* numpy.savez(name, array): the file is created or overwritten
Savez(fs, name, array) == (name :> array) @@ fs

\* one iteration of the loop of calculate_contributions, its two saves included
ContribIter ==
    /\ script = Diagnostic
    /\ pc = "loop"
    /\ d < PyLen(adjacency_matrices)
    /\ scores_vec' = VecAdd(scores_vec, ScoresVecTmp)
    /\ norm_factors_vec' = VecAdd(norm_factors_vec, NormFactorsVecTmp)
    /\ contributions' = Append(contributions,
            [scores_vec_tmp |-> ScoresVecTmp, norm_factors_vec_tmp |-> NormFactorsVecTmp])
    /\ files' = Savez(Savez(files, ScoresFile, ScoresVecTmp),
                      NormFactorsFile, NormFactorsVecTmp)
    /\ saves' = saves \cup {[name |-> ScoresFile, key |-> SaveKey("scores")],
                            [name |-> NormFactorsFile, key |-> SaveKey("normFactors")]}
    /\ d' = d + 1
    /\ UNCHANGED <<inputs, args, script, pc, adjacency_matrices, causal_genes_vec, runs>>

\* the loop is over: calculate_contributions returns nothing, main ends
ContribReturn ==
    /\ script = Diagnostic
    /\ pc = "loop"
    /\ d >= PyLen(adjacency_matrices)
    /\ Exit(Outcome(Diagnostic, "none", adjacency_matrices, scores_vec, norm_factors_vec,
                    << >>, contributions))
    /\ UNCHANGED <<inputs, args, files, saves>>

\* the user edits the command line between two runs
ChangeArgs ==
    /\ pc = "idle"
    /\ Len(runs) >= 1
    /\ Len(runs) < MaxRuns
    /\ \E a \in AlphaValues, an \in AlphaNormValues :
        /\ <<a, an>> # <<alpha, alpha_norm>>
        /\ alpha' = a
        /\ alpha_norm' = an
    /\ UNCHANGED <<inputs, patho, d_max, script, pc, locals, contributions,
                   files, saves, runs>>

\* --------------------------------------------------------- specifications
\* the diagnostic script, run after the scorer on the same command line
DiagnosticAfterScorer ==
    /\ Len(runs) = 1
    /\ ContribMain

\* the scorer, then the diagnostic script
Next ==
    \/ ScoresMain
    \/ ScoresIter
    \/ ScoresReturn
    \/ DiagnosticAfterScorer
    \/ ContribIter
    \/ ContribReturn

\* simple interactomes, any causal genes
Init ==
    InitWith(AnyCausal(SimpleGraphs(1)), {"MMAF"}, {50, 100}, {50, 100}, 1..DMax)

Spec == Init /\ [][Next]_vars

\* interactomes with self-loops, the empty interactome and d_max = 0 included
FirstNodeOrNone(graphs) ==
    UNION {{<<G, c>> : c \in {{}, {G.nodes[i] : i \in Indices(G) \cap {1}}}} : G \in graphs}

InitLoops ==
    InitWith(FirstNodeOrNone(LoopGraphs(0)), {"MMAF"}, {50}, {25, 100}, 0..DMax)

SpecLoops == InitLoops /\ [][Next]_vars

\* the path A - B - C with causal gene A, d_max = 2, alpha_norm = 1
PathGraph == [nodes |-> <<"A", "B", "C">>, edges |-> {{"A", "B"}, {"B", "C"}}]
OnlyA(graphs) == {<<G, {"A"}>> : G \in graphs}
PathAlphas == {5 * k : k \in 1..20}

InitPath == InitWith(OnlyA({PathGraph}), {"MMAF"}, PathAlphas, {100}, {2})

SpecPath == InitPath /\ [][Next]_vars

\* several runs of either script, the command line edited in between
RunGraphs == {G \in SimpleGraphs(1) : NodeCount(G) = 3 /\ Cardinality(G.edges) >= 2}

InitRuns == InitWith(OnlyA(RunGraphs), {"MMAF"}, AlphaValues, AlphaNormValues, 1..DMax)

NextRuns ==
    \/ ScoresMain
    \/ ScoresIter
    \/ ScoresReturn
    \/ ContribMain
    \/ ContribIter
    \/ ContribReturn
    \/ ChangeArgs

SpecRuns == InitRuns /\ [][NextRuns]_vars

\* ------------------------------------------------------------ properties
Positions == Indices(interactome)
RunIds == 1..Len(runs)
Finished(s) == {k \in RunIds : runs[k].script = s /\ runs[k].raised = "none"}
Distances(matrices) == 1..(PyLen(matrices) - 1)

\* res.setdiag(0): every diagonal entry cleared
SetDiagZero(M) == [i \in Dim(M) |-> [j \in Dim(M) |-> IF i = j THEN FALSE ELSE M[i][j]]]

\* the product that the matrix at index k is the zeroed form of
RawPower(matrices, k) ==
    IF k = 1 THEN ToScipySparseArray(interactome)
    ELSE MatMul(PyIndex(matrices, k - 1), SetDiagZero(ToScipySparseArray(interactome)))

\* C1: every matrix get_adjacency_matrices returns at an index 1..d_max has an
\* all-zero diagonal, and equals the full diagonal clear (setdiag(0)) of the
\* product it was computed from, at every power
C1_ZeroDiagonalAtEveryPower ==
    pc = "loop" =>
        \A k \in Distances(adjacency_matrices) :
            /\ \A i \in Positions : ~PyIndex(adjacency_matrices, k)[i][i]
            /\ PyIndex(adjacency_matrices, k) = SetDiagZero(RawPower(adjacency_matrices, k))

\* C1 witness: a graph with a self-loop, three matrices built, and a product
\* at power 2 whose diagonal has both set entries (closed walks) and clear ones
C1_Witness ==
    /\ pc = "loop"
    /\ PyLen(adjacency_matrices) - 1 >= 3
    /\ \E i \in Positions : ToScipySparseArray(interactome)[i][i]
    /\ \E i \in Positions : RawPower(adjacency_matrices, 2)[i][i]
    /\ \E i \in Positions : ~RawPower(adjacency_matrices, 2)[i][i]

\* the nodes a walk of exactly k edges from position u ends at
RECURSIVE WalkEnds(_, _)
WalkEnds(u, k) ==
    IF k = 0 THEN {u}
    ELSE {v \in Positions :
            \E w \in WalkEnds(u, k - 1) :
                HasEdge(interactome, interactome.nodes[w], interactome.nodes[v])}

\* C2: the matrix at index i is A**i with the diagonal zeroed: off the
\* diagonal, entry (u, v) is set exactly when the graph has a walk of length i
\* from u to v, and the diagonal is zero
C2_MatrixIsWalkPower ==
    pc = "loop" =>
        \A k \in Distances(adjacency_matrices) : \A u, v \in Positions :
            PyIndex(adjacency_matrices, k)[u][v] = (u # v /\ v \in WalkEnds(u, k))

\* C6: get_adjacency_matrices fails when d_max < 1 or the graph has no node,
\* returning no list; otherwise it returns exactly d_max matrices
C6_InvalidArgumentOrDmaxMatrices ==
    /\ \A k \in RunIds :
        (runs[k].args.d_max < 1 \/ NodeCount(interactome) = 0)
            => (runs[k].raised # "none" /\ runs[k].adjacency_matrices = << >>)
    /\ pc = "loop" =>
        /\ d_max >= 1
        /\ NodeCount(interactome) >= 1
        /\ PyLen(adjacency_matrices) - 1 = d_max

\* C7: two saves of different (pathology, alpha, alpha_norm, d_max, distance,
\* score-vs-norm) tuples go to different file names
C7_FileNameDeterminesTuple ==
    \A s1, s2 \in saves : s1.key # s2.key => s1.name # s2.name

\* the sum over the distances 1..dmax of the arrays saved under the names of `what`
RECURSIVE SavedSum(_, _, _)
SavedSum(what, a, dist) ==
    IF dist = 0 THEN Zeros(interactome)
    ELSE VecAdd(SavedSum(what, a, dist - 1),
                files[FileName(what, a.patho, a.alpha, a.alpha_norm, a.d_max, dist)])

\* C3: the saved per-distance score contributions sum to the scorer's
\* scores_vec, and the saved normalization contributions to its
\* norm_factors_vec, position by position
C3_CrossModeConsistency ==
    \A j \in Finished(Scorer), k \in Finished(Diagnostic) :
        (runs[j].args = runs[k].args /\ runs[j].args.d_max >= 1) =>
            /\ SavedSum("scores", runs[k].args, runs[k].args.d_max) = runs[j].scores_vec
            /\ SavedSum("normFactors", runs[k].args, runs[k].args.d_max)
                    = runs[j].norm_factors_vec

\* C3 witness: both scripts have run with d_max >= 2 and alpha_norm # 1, a
\* node scored at distance 1 and a node scored at distance 2
C3_Witness ==
    \E j \in Finished(Scorer), k \in Finished(Diagnostic) :
        /\ runs[j].args = runs[k].args
        /\ runs[k].args.d_max >= 2
        /\ runs[k].args.alpha_norm # 100
        /\ \E i \in Positions : runs[k].contributions[1].scores_vec_tmp[i] # RatZero
        /\ \E i \in Positions : runs[k].contributions[2].scores_vec_tmp[i] # RatZero

SameButAlphaNorm(a, b) ==
    /\ a.patho = b.patho
    /\ a.alpha = b.alpha
    /\ a.d_max = b.d_max
    /\ a.alpha_norm # b.alpha_norm

ScoreContributions(r) ==
    [k \in 1..Len(r.contributions) |-> r.contributions[k].scores_vec_tmp]

\* C4: two runs that differ only in alpha_norm have the same scores_vec and
\* the same per-distance scores_vec_tmp
C4_NumeratorIndependentOfAlphaNorm ==
    \A j, k \in RunIds :
        (/\ runs[j].script = runs[k].script
         /\ runs[j].raised = "none"
         /\ runs[k].raised = "none"
         /\ SameButAlphaNorm(runs[j].args, runs[k].args)) =>
            /\ runs[j].scores_vec = runs[k].scores_vec
            /\ ScoreContributions(runs[j]) = ScoreContributions(runs[k])

\* C4 witness: two diagnostic runs that differ only in alpha_norm, with a
\* nonzero numerator and different normalization vectors
C4_Witness ==
    \E j, k \in Finished(Diagnostic) :
        /\ SameButAlphaNorm(runs[j].args, runs[k].args)
        /\ runs[j].norm_factors_vec # runs[k].norm_factors_vec
        /\ \E i \in Positions : runs[j].scores_vec[i] # RatZero
        /\ Len(runs[j].contributions) >= 2

PosOf(g) == CHOOSE i \in Positions : interactome.nodes[i] = g

\* C5: on the path A - B - C with causal gene A, d_max = 2 and alpha_norm = 1,
\* the distance-1 contribution is nonzero for B and zero for C, the distance-2
\* contribution is nonzero for C, and for alpha in (0, 1) the final score of C
\* is strictly less than that of B
C5_PathGraphDecay ==
    /\ \A k \in Finished(Diagnostic) :
        /\ runs[k].contributions[1].scores_vec_tmp[PosOf("B")] # RatZero
        /\ runs[k].contributions[1].scores_vec_tmp[PosOf("C")] = RatZero
        /\ runs[k].contributions[2].scores_vec_tmp[PosOf("C")] # RatZero
    /\ \A k \in Finished(Scorer) :
        runs[k].args.alpha < 100 =>
            /\ runs[k].scores["B"].kind = "num"
            /\ runs[k].scores["C"].kind = "num"
            /\ RatLt(runs[k].scores["C"].val, runs[k].scores["B"].val)

\* C5 witness: both scripts have run on the path with alpha = 0.5
C5_Witness ==
    /\ interactome = PathGraph
    /\ causal_genes = {"A"}
    /\ d_max = 2
    /\ alpha_norm = 100
    /\ alpha = 50
    /\ Finished(Scorer) # {}
    /\ Finished(Diagnostic) # {}

\* the nodes row i of M reaches, and the causal genes among them
Reach(M, i) == {j \in Dim(M) : M[i][j]}
CausalReach(M, i) == {j \in Reach(M, i) : interactome.nodes[j] \in causal_genes}

RECURSIVE WeightedSum(_, _, _)
WeightedSum(w, count, k) ==
    IF k = 0 THEN RatZero
    ELSE RatAdd(WeightedSum(w, count, k - 1), RatMul(RatPow(w, k), Rat(count[k], 1)))

\* sum over d of alpha^d * (M_d . c)_i, for a finished run r
FormulaNumerator(r, i) ==
    LET ds == Distances(r.adjacency_matrices)
    IN WeightedSum(Float(r.args.alpha),
            [k \in ds |-> Cardinality(CausalReach(PyIndex(r.adjacency_matrices, k), i))],
            Cardinality(ds))

\* sum over d of (alpha/alpha_norm)^d * (M_d . ones)_i, for a finished run r
FormulaDenominator(r, i) ==
    LET ds == Distances(r.adjacency_matrices)
    IN WeightedSum(RatDiv(Float(r.args.alpha), Float(r.args.alpha_norm)),
            [k \in ds |-> Cardinality(Reach(PyIndex(r.adjacency_matrices, k), i))],
            Cardinality(ds))

\* every node, causal or not, is scored by the one formula
UniformFormula(r) ==
    \A i \in Positions :
        FormulaDenominator(r, i) # RatZero =>
            r.scores[interactome.nodes[i]]
                = Num(RatDiv(FormulaNumerator(r, i), FormulaDenominator(r, i)))

\* a causal gene none of whose rows of M_1..M_d_max reaches a causal gene
LonelyCausal(r, i) ==
    /\ interactome.nodes[i] \in causal_genes
    /\ \A k \in Distances(r.adjacency_matrices) :
            CausalReach(PyIndex(r.adjacency_matrices, k), i) = {}

C9_NumeratorAtMostDenominator ==
    /\ pc = "loop" =>
        \A i \in Positions :
            /\ RatLeq(RatZero, scores_vec[i])
            /\ RatLeq(scores_vec[i], norm_factors_vec[i])
    /\ \A k \in Finished(Scorer) : \A i \in Positions :
        LET s == runs[k].scores[interactome.nodes[i]]
        IN /\ s.kind \in {"num", "nan"}
           /\ s.kind = "num" => (RatLeq(RatZero, s.val) /\ RatLeq(s.val, RatOne))
           /\ runs[k].norm_factors_vec[i] = RatZero => runs[k].scores_vec[i] = RatZero

\* C9 witness: two iterations done with alpha_norm < 1, a node whose numerator
\* is strictly between 0 and its denominator, and a node with both at zero
C9_Witness ==
    /\ pc = "loop"
    /\ d >= 3
    /\ alpha_norm < 100
    /\ \E i \in Positions :
        /\ RatLt(RatZero, scores_vec[i])
        /\ RatLt(scores_vec[i], norm_factors_vec[i])
    /\ \E i \in Positions : norm_factors_vec[i] = RatZero

HasOtherNeighbour(i) ==
    \E j \in Positions \ {i} : HasEdge(interactome, interactome.nodes[i], interactome.nodes[j])

\* C10: the normalization factor of a node is zero exactly when it has no
\* neighbour other than itself; the scorer returns an entry for every node,
\* undefined for those nodes only and score/norm for every other node
C10_UndefinedOnlyWithoutNeighbour ==
    \A k \in Finished(Scorer) :
        /\ DOMAIN runs[k].scores = {interactome.nodes[i] : i \in Positions}
        /\ \A i \in Positions :
            /\ (runs[k].norm_factors_vec[i] = RatZero) = ~HasOtherNeighbour(i)
            /\ runs[k].scores[interactome.nodes[i]]
                = IF HasOtherNeighbour(i)
                  THEN Num(RatDiv(runs[k].scores_vec[i], runs[k].norm_factors_vec[i]))
                  ELSE Nan

\* C10 witness: a finished scorer run on a graph where one node has only a
\* self-loop and another node has a causal neighbour
C10_Witness ==
    \E k \in Finished(Scorer) : \E i, j \in Positions :
        /\ runs[k].args.d_max >= 2
        /\ HasEdge(interactome, interactome.nodes[i], interactome.nodes[i])
        /\ ~HasOtherNeighbour(i)
        /\ runs[k].scores[interactome.nodes[i]] = Nan
        /\ HasOtherNeighbour(j)
        /\ runs[k].scores_vec[j] # RatZero

====
